---- MODULE Spec2Model ----
(***************************************************************************)
(* Model of osu_lib/calculator.py: the four hit-count simulators of        *)
(* OsuCalculator (_sim_osu, _sim_taiko, _sim_catch, _sim_mania), the       *)
(* validity probe they share, and the calculate pipeline around them.      *)
(*                                                                         *)
(* Python floats are modelled by exact rationals <<n, d>>.  The only place *)
(* where the binary rounding error of a float can change a result is a     *)
(* round() whose exact argument lies halfway between two integers: there   *)
(* the float lands on either side (or exactly on the tie, which round()    *)
(* sends to the even neighbour), so a tie rounds down or up, chosen        *)
(* nondeterministically per round() call.                                  *)
(***************************************************************************)
EXTENDS Integers, Sequences, FiniteSets, TLC

VARIABLES file_path, mode, acc, misses, statistics, beatmap,
          pc, fs, reader, called, pending, effective_misses, stats, outcome

vars == <<file_path, mode, acc, misses, statistics, beatmap,
          pc, fs, reader, called, pending, effective_misses, stats, outcome>>

(***************************************************************************)
(* Bounds of the model.                                                    *)
(***************************************************************************)
\* accuracyPercent ranges over 100*a/AccDen for a in 0..AccDen
AccDen == 50
\* beatmap.HitObjects.Count ranges over 0..MaxTotal (Standard, Taiko, Mania)
MaxTotal == 5
\* the misses argument ranges over 0..MaxMiss
MaxMiss == 6
\* a Catch beatmap has at most MaxCatchObjs top-level hit objects
MaxCatchObjs == 1
\* in a calculate call accuracyPercent ranges over 100*a/CalcAccDen
CalcAccDen == 10
\* in a calculate call the converted beatmap has at most CalcMaxTotal hit objects
CalcMaxTotal == 3
\* in a calculate call the misses argument ranges over 0..CalcMaxMiss
CalcMaxMiss == 2

(***************************************************************************)
(* Exact rational arithmetic standing for Python float arithmetic.         *)
(***************************************************************************)
Abs(x) == IF x < 0 THEN -x ELSE x

RECURSIVE GCD(_, _)
GCD(x, y) == IF y = 0 THEN x ELSE GCD(y, x % y)

\* the rational n/d in lowest terms with a positive denominator
Q(n, d) ==
    LET g == GCD(Abs(n), Abs(d))
        s == IF d < 0 THEN -1 ELSE 1
    IN  <<(s * n) \div g, (s * d) \div g>>

QInt(n) == <<n, 1>>

QAdd(x, y) ==
    LET g == GCD(x[2], y[2])
    IN  Q(x[1] * (y[2] \div g) + y[1] * (x[2] \div g), (x[2] \div g) * y[2])

QNeg(x) == <<-x[1], x[2]>>

QSub(x, y) == QAdd(x, QNeg(y))

QMul(x, y) ==
    LET g1 == GCD(Abs(x[1]), y[2])
        g2 == GCD(Abs(y[1]), x[2])
    IN  Q((x[1] \div g1) * (y[1] \div g2), (x[2] \div g2) * (y[2] \div g1))

\* x / y for y # 0
QDiv(x, y) ==
    QMul(x, IF y[1] < 0 THEN <<-y[2], -y[1]>> ELSE <<y[2], y[1]>>)

QLe(x, y) == QSub(x, y)[1] <= 0

QLt(x, y) == QSub(x, y)[1] < 0

QGe(x, y) == QLe(y, x)

QMax(x, y) == IF QLt(x, y) THEN y ELSE x

QMin(x, y) == IF QLt(y, x) THEN y ELSE x

QAbs(x) == <<Abs(x[1]), x[2]>>

\* int(round(x)): the nearest integer; an exact tie goes up iff tieUp
Round(x, tieUp) ==
    LET f == x[1] \div x[2]
        r == x[1] - f * x[2]
    IN  IF 2 * r > x[2] THEN f + 1
        ELSE IF 2 * r < x[2] THEN f
        ELSE IF tieUp THEN f + 1 ELSE f

Max0(n) == IF n < 0 THEN 0 ELSE n

(***************************************************************************)
(* Python dicts are sets of <<key, value>> pairs with unique keys.         *)
(***************************************************************************)
HasKey(d, k) == \E p \in d : p[1] = k

DictGet(d, k, default) ==
    IF HasKey(d, k) THEN (CHOOSE p \in d : p[1] = k)[2] ELSE default

\* sum of the values of a dict
RECURSIVE DictSum(_)
DictSum(d) ==
    IF d = {} THEN 0
    ELSE LET p == CHOOSE q \in d : TRUE IN p[2] + DictSum(d \ {p})

(***************************************************************************)
(* Explicit statistics: None, a dict, or an attribute-bearing object.      *)
(***************************************************************************)
StatFields ==
    {"great", "ok", "meh", "good", "perfect", "miss",
     "large_tick_hit", "small_tick_hit", "small_tick_miss"}

None == [kind |-> "None", items |-> {}]

\* not stats_obj: None and the empty dict are falsy, an object is truthy
Falsy(stats_obj) ==
    \/ stats_obj.kind = "None"
    \/ stats_obj.kind = "dict" /\ stats_obj.items = {}

_extract_stat(stats_obj, attr_name, default) ==
    IF stats_obj.kind = "None" THEN default
    ELSE IF stats_obj.kind = "dict" THEN DictGet(stats_obj.items, attr_name, default)
    ELSE DictGet(stats_obj.items, attr_name, default)

ProbeKeys == {"great", "ok", "meh", "good", "perfect", "miss", "large_tick_hit"}

\* _has_valid_stats with the probe comparing >= 0 instead of > 0
HasValidStatsNonNegative(stats_obj) ==
    IF Falsy(stats_obj) THEN FALSE
    ELSE \E k \in ProbeKeys : _extract_stat(stats_obj, k, 0) >= 0

_has_valid_stats(stats_obj) ==
    IF Falsy(stats_obj) THEN FALSE
    ELSE \E k \in ProbeKeys : _extract_stat(stats_obj, k, 0) > 0

(***************************************************************************)
(* A simulator call either returns a HitResult-keyed dict or raises.       *)
(***************************************************************************)
Return(d) == [exc |-> "none", ret |-> d]

Raise(e) == [exc |-> e, ret |-> {}]

Count(d, kind) == DictGet(d, kind, 0)

\* beatmap.HitObjects.Count
HitObjectsCount(bm) == Len(bm)

(***************************************************************************)
(* _sim_osu.  tie1, tie2: the direction of the first and second round()    *)
(* call on an exact tie.                                                   *)
(***************************************************************************)
\* OsuExplicit reading Miss from the meh field
OsuExplicitMissFromMeh(stats_obj) ==
    { <<"Great", _extract_stat(stats_obj, "great", 0)>>,
      <<"Ok", _extract_stat(stats_obj, "ok", 0)>>,
      <<"Meh", _extract_stat(stats_obj, "meh", 0)>>,
      <<"Miss", _extract_stat(stats_obj, "meh", 0)>> }

OsuExplicit(stats_obj) ==
    { <<"Great", _extract_stat(stats_obj, "great", 0)>>,
      <<"Ok", _extract_stat(stats_obj, "ok", 0)>>,
      <<"Meh", _extract_stat(stats_obj, "meh", 0)>>,
      <<"Miss", _extract_stat(stats_obj, "miss", 0)>> }

\* OsuBandHigh rounding each tier on its own instead of the cumulative sum
OsuBandHighIndependent(relevant, rel_acc, tie1, tie2) ==
    LET base  == QSub(QInt(1), QDiv(QSub(rel_acc, <<1, 4>>), <<3, 4>>))
        ratio == QMul(base, base)
        c100  == QDiv(QMul(QInt(6 * relevant), QSub(QInt(1), rel_acc)),
                      QAdd(QMul(QInt(5), ratio), QInt(4)))
        c50   == QMul(c100, ratio)
    IN  [n100 |-> Round(c100, tie1), n50 |-> Round(c50, tie2)]

\* lines 225-230: rel_acc >= 0.25
OsuBandHigh(relevant, rel_acc, tie1, tie2) ==
    LET base  == QSub(QInt(1), QDiv(QSub(rel_acc, <<1, 4>>), <<3, 4>>))
        ratio == QMul(base, base)
        c100  == QDiv(QMul(QInt(6 * relevant), QSub(QInt(1), rel_acc)),
                      QAdd(QMul(QInt(5), ratio), QInt(4)))
        c50   == QMul(c100, ratio)
        n100  == Round(c100, tie1)
        n50   == Round(QAdd(c100, c50), tie2) - n100
    IN  [n100 |-> n100, n50 |-> n50]

\* lines 231-235: 1/6 <= rel_acc < 0.25
OsuBandMid(relevant, rel_acc, tie1, tie2) ==
    LET c100 == QSub(QMul(QInt(6 * relevant), rel_acc), QInt(relevant))
        c50  == QSub(QInt(relevant), c100)
        n100 == Round(c100, tie1)
        n50  == Round(QAdd(c100, c50), tie2) - n100
    IN  [n100 |-> n100, n50 |-> n50]

\* lines 236-238: rel_acc < 1/6
OsuBandLow(relevant, rel_acc, tie1) ==
    LET c50 == QMul(QInt(6 * relevant), rel_acc)
    IN  [n100 |-> 0, n50 |-> Round(c50, tie1)]

\* the band of rel_acc: "high", "mid" or "low"
OsuBand(rel_acc) ==
    IF QGe(rel_acc, <<1, 4>>) THEN "high"
    ELSE IF QGe(rel_acc, <<1, 6>>) THEN "mid"
    ELSE "low"

\* OsuRelAcc without the clamp of line 223
OsuRelAccUnclamped(accuracy, total, relevant) ==
    QDiv(QMul(accuracy, QInt(total)), QInt(relevant))

\* lines 222-223
OsuRelAcc(accuracy, total, relevant) ==
    QMax(QInt(0), QMin(QInt(1), QDiv(QMul(accuracy, QInt(total)), QInt(relevant))))

\* NothingRelevant with < instead of <=
NothingRelevantStrict(relevant) == relevant < 0

\* line 221: the guard of the early return
NothingRelevant(relevant) == relevant <= 0

\* lines 216-247, the fallback
OsuFallback(acc_, bm, misses_, tie1, tie2) ==
    LET total    == HitObjectsCount(bm)
        relevant == total - misses_
        accuracy == QDiv(acc_, QInt(100))
    IN  IF NothingRelevant(relevant) THEN Return({ <<"Miss", misses_>> })
            \* line 222 divides by relevant
        ELSE IF relevant = 0 THEN Raise("ZeroDivisionError")
        ELSE
          LET rel_acc == OsuRelAcc(accuracy, total, relevant)
              band    == OsuBand(rel_acc)
              n       == IF band = "high" THEN OsuBandHigh(relevant, rel_acc, tie1, tie2)
                         ELSE IF band = "mid" THEN OsuBandMid(relevant, rel_acc, tie1, tie2)
                         ELSE OsuBandLow(relevant, rel_acc, tie1)
              m2      == IF band = "low" THEN total - n.n50 ELSE misses_
              n300    == total - n.n100 - n.n50 - m2
          IN  Return({ <<"Great", Max0(n300)>>, <<"Ok", Max0(n.n100)>>,
                       <<"Meh", Max0(n.n50)>>, <<"Miss", Max0(m2)>> })

_sim_osu(acc_, bm, misses_, stats_obj, tie1, tie2) ==
    IF _has_valid_stats(stats_obj) THEN Return(OsuExplicit(stats_obj))
    ELSE OsuFallback(acc_, bm, misses_, tie1, tie2)

(***************************************************************************)
(* _sim_taiko                                                              *)
(***************************************************************************)
TaikoExplicit(stats_obj) ==
    { <<"Great", _extract_stat(stats_obj, "great", 0)>>,
      <<"Ok", _extract_stat(stats_obj, "ok", 0)>>,
      <<"Miss", _extract_stat(stats_obj, "miss", 0)>> }

TaikoFallback(acc_, bm, misses_, tie1) ==
    LET total    == HitObjectsCount(bm)
        relevant == total - misses_
        accuracy == QDiv(acc_, QInt(100))
        n_great  == Round(QMul(QSub(QMul(QInt(2), accuracy), QInt(1)), QInt(relevant)), tie1)
        n_good   == relevant - n_great
    IN  Return({ <<"Great", Max0(n_great)>>, <<"Ok", Max0(n_good)>>,
                 <<"Miss", Max0(misses_)>> })

_sim_taiko(acc_, bm, misses_, stats_obj, tie1) ==
    IF _has_valid_stats(stats_obj) THEN Return(TaikoExplicit(stats_obj))
    ELSE TaikoFallback(acc_, bm, misses_, tie1)

(***************************************************************************)
(* _sim_mania                                                              *)
(***************************************************************************)
ManiaExplicit(stats_obj) ==
    { <<"Perfect", _extract_stat(stats_obj, "perfect", 0)>>,
      <<"Great", _extract_stat(stats_obj, "great", 0)>>,
      <<"Good", _extract_stat(stats_obj, "good", 0)>>,
      <<"Ok", _extract_stat(stats_obj, "ok", 0)>>,
      <<"Meh", _extract_stat(stats_obj, "meh", 0)>>,
      <<"Miss", _extract_stat(stats_obj, "miss", 0)>> }

\* ManiaBand with the second threshold at 0.88 instead of 0.90
ManiaBandShifted(accuracy) ==
    IF QGe(accuracy, <<24, 25>>) THEN 1
    ELSE IF QGe(accuracy, <<22, 25>>) THEN 2
    ELSE IF QGe(accuracy, <<4, 5>>) THEN 3
    ELSE IF QGe(accuracy, <<3, 5>>) THEN 4
    ELSE 5

\* the band of accuracy: 1 (>= 0.96), 2 (>= 0.90), 3 (>= 0.80), 4 (>= 0.60), 5
ManiaBand(accuracy) ==
    IF QGe(accuracy, <<24, 25>>) THEN 1
    ELSE IF QGe(accuracy, <<9, 10>>) THEN 2
    ELSE IF QGe(accuracy, <<4, 5>>) THEN 3
    ELSE IF QGe(accuracy, <<3, 5>>) THEN 4
    ELSE 5

\* p = 1 - (top - accuracy) / width, and int(round(p * relevant))
ManiaUpper(accuracy, top, width, relevant, tie1) ==
    LET p == QSub(QInt(1), QDiv(QSub(top, accuracy), width))
    IN  Round(QMul(p, QInt(relevant)), tie1)

ManiaFallback(acc_, bm, misses_, tie1) ==
    LET total    == HitObjectsCount(bm)
        relevant == total - misses_
        accuracy == QDiv(acc_, QInt(100))
        band     == IF relevant > 0 THEN ManiaBand(accuracy) ELSE 0
        n_perfect == IF band = 1 THEN ManiaUpper(accuracy, QInt(1), <<1, 25>>, relevant, tie1) ELSE 0
        n_great  == IF band = 1 THEN relevant - n_perfect
                    ELSE IF band = 2 THEN ManiaUpper(accuracy, <<24, 25>>, <<3, 50>>, relevant, tie1)
                    ELSE 0
        n_good   == IF band = 2 THEN relevant - n_great
                    ELSE IF band = 3 THEN ManiaUpper(accuracy, <<9, 10>>, <<1, 10>>, relevant, tie1)
                    ELSE 0
        n_ok     == IF band = 3 THEN relevant - n_good
                    ELSE IF band = 4 THEN ManiaUpper(accuracy, <<4, 5>>, <<1, 5>>, relevant, tie1)
                    ELSE 0
        n_meh    == IF band = 4 THEN relevant - n_ok
                    ELSE IF band = 5 THEN relevant
                    ELSE 0
    IN  Return({ <<"Perfect", Max0(n_perfect)>>, <<"Great", Max0(n_great)>>,
                 <<"Good", Max0(n_good)>>, <<"Ok", Max0(n_ok)>>,
                 <<"Meh", Max0(n_meh)>>, <<"Miss", Max0(misses_)>> })

_sim_mania(acc_, bm, misses_, stats_obj, tie1) ==
    IF _has_valid_stats(stats_obj) THEN Return(ManiaExplicit(stats_obj))
    ELSE ManiaFallback(acc_, bm, misses_, tie1)

(***************************************************************************)
(* _sim_catch.  A hit object is [type, nested]; TinyDroplet is a subclass  *)
(* of Droplet, and it is tested first.                                     *)
(***************************************************************************)
CatchExplicit(stats_obj) ==
    { <<"Great", _extract_stat(stats_obj, "great", 0)>>,
      <<"LargeTickHit", _extract_stat(stats_obj, "large_tick_hit", 0)>>,
      <<"SmallTickHit", _extract_stat(stats_obj, "small_tick_hit", 0)>>,
      <<"SmallTickMiss", _extract_stat(stats_obj, "small_tick_miss", 0)>>,
      <<"Miss", _extract_stat(stats_obj, "miss", 0)>> }

\* lines 345-352: one JuiceStream's nested objects, added to the counters c
RECURSIVE CountNested(_, _)
CountNested(nested, c) ==
    IF nested = <<>> THEN c
    ELSE LET n == Head(nested)
             c2 == IF n = "TinyDroplet"
                       THEN [c EXCEPT !.max_tiny_droplets = @ + 1,
                                      !.max_droplets_total = @ + 1]
                   ELSE IF n = "Droplet"
                       THEN [c EXCEPT !.max_droplets_total = @ + 1]
                   ELSE IF n = "Fruit"
                       THEN [c EXCEPT !.max_fruits = @ + 1]
                   ELSE c
         IN  CountNested(Tail(nested), c2)

\* lines 341-352: the walk over beatmap.HitObjects
RECURSIVE CountObjects(_, _)
CountObjects(objs, c) ==
    IF objs = <<>> THEN c
    ELSE LET h == Head(objs)
             c2 == IF h.type = "Fruit" THEN [c EXCEPT !.max_fruits = @ + 1]
                   ELSE IF h.type = "JuiceStream" THEN CountNested(h.nested, c)
                   ELSE c
         IN  CountObjects(Tail(objs), c2)

CatchCounts(bm) ==
    CountObjects(bm, [max_fruits |-> 0, max_droplets_total |-> 0, max_tiny_droplets |-> 0])

\* count_droplets, line 358
CountDroplets(max_droplets, misses_) == Max0(max_droplets - misses_)

CatchFallback(bm, misses_) ==
    LET c              == CatchCounts(bm)
        max_droplets   == c.max_droplets_total - c.max_tiny_droplets
        count_droplets == CountDroplets(max_droplets, misses_)
        count_fruits   == c.max_fruits
        count_tiny     == c.max_tiny_droplets
    IN  Return({ <<"Great", count_fruits>>, <<"LargeTickHit", count_droplets>>,
                 <<"SmallTickHit", count_tiny>>, <<"Miss", misses_>> })

_sim_catch(acc_, bm, misses_, stats_obj) ==
    IF _has_valid_stats(stats_obj) THEN Return(CatchExplicit(stats_obj))
    ELSE CatchFallback(bm, misses_)

(***************************************************************************)
(* The inputs.                                                             *)
(***************************************************************************)
Dict(items) == [kind |-> "dict", items |-> items]

Object(items) == [kind |-> "object", items |-> items]

\* the explicit statistics a caller passes
StatsSet ==
    { None, Dict({}), Object({}),
      Dict({ <<f, 0>> : f \in StatFields }),
      Object({ <<f, 1>> : f \in StatFields }),
      Dict({ <<"great", 50>>, <<"miss", 2>> }),
      Dict({ <<"great", -1>>, <<"small_tick_hit", 3>> }) }
    \cup { Dict({ <<f, 1>> }) : f \in StatFields }

\* the explicit statistics of the calculate calls
CalcStatsSet ==
    { None, Dict({}),
      Dict({ <<"great", 50>>, <<"miss", 2>> }),
      Dict({ <<"small_tick_hit", 3>>, <<"small_tick_miss", 1>>, <<"miss", 0>> }),
      Object({ <<"large_tick_hit", 1>>, <<"great", 2>> }) }

\* acc for accuracy a/den
Percent(a, den) == Q(100 * a, den)

Accs == { Percent(a, AccDen) : a \in 0..AccDen }

CalcAccs == { Percent(a, CalcAccDen) : a \in 0..CalcAccDen }

\* a converted Standard, Taiko or Mania beatmap of n hit objects
Plain(n) == [i \in 1..n |-> [type |-> "HitObject", nested |-> <<>>]]

\* the nested hit objects of a JuiceStream
NestedLists ==
    { <<>>, <<"Droplet">>, <<"TinyDroplet">>,
      <<"Fruit", "TinyDroplet", "Droplet", "TinyDroplet", "Droplet", "Fruit">> }

CatchObjects ==
    { [type |-> "Fruit", nested |-> <<>>], [type |-> "BananaShower", nested |-> <<>>] }
    \cup { [type |-> "JuiceStream", nested |-> n] : n \in NestedLists }

CatchBeatmaps(maxObjs) == UNION { [1..n -> CatchObjects] : n \in 0..maxObjs }

Beatmaps(mode_) ==
    IF mode_ = 2 THEN CatchBeatmaps(MaxCatchObjs)
    ELSE { Plain(n) : n \in 0..MaxTotal }

CalcBeatmaps(mode_) ==
    IF mode_ = 2 THEN CatchBeatmaps(1)
    ELSE { Plain(n) : n \in 0..CalcMaxTotal }

NoOutcome == [kind |-> "none", error |-> <<>>, stats_used |-> {}]

(***************************************************************************)
(* SimSpec: one call of one simulator on drawn arguments.                  *)
(***************************************************************************)
SimInit ==
    /\ mode \in 0..3
    /\ acc \in Accs
    /\ misses \in 0..MaxMiss
    /\ statistics \in StatsSet
    /\ beatmap \in Beatmaps(mode)
    /\ pc = "call"
    /\ stats = {}
    /\ outcome = NoOutcome
    /\ file_path = "" /\ fs = "None" /\ reader = "None" /\ called = {}
    /\ pending = NoOutcome /\ effective_misses = 0

\* the simulator returns r, or raises
Returned(r) ==
    /\ pc' = "returned"
    /\ stats' = r.ret
    /\ outcome' = IF r.exc = "none" THEN [kind |-> "return", error |-> <<>>, stats_used |-> r.ret]
                  ELSE [kind |-> "raise", error |-> <<r.exc>>, stats_used |-> {}]
    /\ UNCHANGED <<file_path, mode, acc, misses, statistics, beatmap,
                   fs, reader, called, pending, effective_misses>>

CallSimOsu ==
    /\ pc = "call" /\ mode = 0
    /\ \E tie1, tie2 \in BOOLEAN :
         Returned(_sim_osu(acc, beatmap, misses, statistics, tie1, tie2))

CallSimTaiko ==
    /\ pc = "call" /\ mode = 1
    /\ \E tie1 \in BOOLEAN :
         Returned(_sim_taiko(acc, beatmap, misses, statistics, tie1))

CallSimCatch ==
    /\ pc = "call" /\ mode = 2
    /\ Returned(_sim_catch(acc, beatmap, misses, statistics))

CallSimMania ==
    /\ pc = "call" /\ mode = 3
    /\ \E tie1 \in BOOLEAN :
         Returned(_sim_mania(acc, beatmap, misses, statistics, tie1))

SimNext == CallSimOsu \/ CallSimTaiko \/ CallSimCatch \/ CallSimMania

SimSpec == SimInit /\ [][SimNext]_vars

(***************************************************************************)
(* Spec: one call of calculate, one action per step of its body.  Every    *)
(* call into the engine (FileStream, LineBufferedReader, the decoder, the  *)
(* converter, the difficulty and performance calculators, ScoreInfo,       *)
(* Dispose) either returns or raises.                                      *)
(***************************************************************************)
Paths == {"map.osu", "missing.osu"}

\* os.path.abspath(file_path)
AbsPath(path) == <<"/cwd/", path>>

\* os.path.exists(abs_path)
Exists(abs_path) == abs_path = AbsPath("map.osu")

\* the keys of self.rulesets
Rulesets == 0..3

CalcModes == 0..4

Error(msg) == [kind |-> "error", error |-> msg, stats_used |-> {}]

Success(stats_) == [kind |-> "success", error |-> <<>>, stats_used |-> stats_]

Raised(exc) == [kind |-> "raise", error |-> <<exc>>, stats_used |-> {}]

Init ==
    /\ file_path \in Paths
    /\ mode \in CalcModes
    /\ acc \in CalcAccs
    /\ misses \in 0..CalcMaxMiss
    /\ statistics \in CalcStatsSet
    /\ beatmap = <<>>
    /\ pc = "start"
    /\ fs = "None" /\ reader = "None"
    /\ called = {}
    /\ pending = NoOutcome
    /\ effective_misses = 0
    /\ stats = {}
    /\ outcome = NoOutcome

\* lines 377-378
FileNotFound ==
    /\ pc = "start"
    /\ ~Exists(AbsPath(file_path))
    /\ outcome' = Error(<<"File not found: ">> \o AbsPath(file_path))
    /\ pc' = "done"
    /\ UNCHANGED <<file_path, mode, acc, misses, statistics, beatmap,
                   fs, reader, called, pending, effective_misses, stats>>

\* lines 380-381
InvalidMode ==
    /\ pc = "start"
    /\ Exists(AbsPath(file_path))
    /\ mode \notin Rulesets
    /\ outcome' = Error(<<"Invalid mode">>)
    /\ pc' = "done"
    /\ UNCHANGED <<file_path, mode, acc, misses, statistics, beatmap,
                   fs, reader, called, pending, effective_misses, stats>>

\* lines 383-385
EnterTry ==
    /\ pc = "start"
    /\ Exists(AbsPath(file_path))
    /\ mode \in Rulesets
    /\ pc' = "open_fs"
    /\ UNCHANGED <<file_path, mode, acc, misses, statistics, beatmap,
                   fs, reader, called, pending, effective_misses, stats, outcome>>

\* the engine call made at each step of the try block
Collaborator(step) ==
    CASE step = "open_fs"    -> "FileStream"
      [] step = "new_reader" -> "LineBufferedReader"
      [] step = "decode"     -> "Decode"
      [] step = "convert"    -> "Convert"
      [] step = "difficulty" -> "DifficultyCalculator"
      [] step = "score"      -> "ScoreInfo"
      [] step = "perf"       -> "PerformanceCalculator"

EngineSteps ==
    {"open_fs", "new_reader", "decode", "convert", "difficulty", "score", "perf"}

\* lines 446-449: an engine call raises e, and the handler turns it into an
\* error object
EngineRaises ==
    /\ pc \in EngineSteps
    /\ called' = called \cup {Collaborator(pc)}
    /\ pending' = Error(<<"exception in ", Collaborator(pc)>>)
    /\ pc' = "finally_reader"
    /\ UNCHANGED <<file_path, mode, acc, misses, statistics, beatmap,
                   fs, reader, effective_misses, stats, outcome>>

\* line 387
OpenStream ==
    /\ pc = "open_fs"
    /\ fs' = "open"
    /\ called' = called \cup {"FileStream"}
    /\ pc' = "new_reader"
    /\ UNCHANGED <<file_path, mode, acc, misses, statistics, beatmap,
                   reader, pending, effective_misses, stats, outcome>>

\* line 388
NewReader ==
    /\ pc = "new_reader"
    /\ reader' = "open"
    /\ called' = called \cup {"LineBufferedReader"}
    /\ pc' = "decode"
    /\ UNCHANGED <<file_path, mode, acc, misses, statistics, beatmap,
                   fs, pending, effective_misses, stats, outcome>>

\* lines 389-390
Decode ==
    /\ pc = "decode"
    /\ called' = called \cup {"Decode"}
    /\ pc' = "convert"
    /\ UNCHANGED <<file_path, mode, acc, misses, statistics, beatmap,
                   fs, reader, pending, effective_misses, stats, outcome>>

\* lines 392-395: the beatmap the simulators see is the converter's output
\* (or the decoded beatmap when CanConvert() is false)
Convert ==
    /\ pc = "convert"
    /\ beatmap' \in CalcBeatmaps(mode)
    /\ called' = called \cup {"Convert"}
    /\ pc' = "difficulty"
    /\ UNCHANGED <<file_path, mode, acc, misses, statistics,
                   fs, reader, pending, effective_misses, stats, outcome>>

\* lines 398-400
Difficulty ==
    /\ pc = "difficulty"
    /\ called' = called \cup {"DifficultyCalculator"}
    /\ pc' = "simulate"
    /\ UNCHANGED <<file_path, mode, acc, misses, statistics, beatmap,
                   fs, reader, pending, effective_misses, stats, outcome>>

\* lines 406-408
EffectiveMisses(misses_, stats_obj) ==
    IF _has_valid_stats(stats_obj) THEN _extract_stat(stats_obj, "miss", 0)
    ELSE misses_

\* lines 410-417: the results the dispatched simulator can produce
Dispatch(mode_, acc_, bm, eff, stats_obj) ==
    IF mode_ = 0
        THEN { _sim_osu(acc_, bm, eff, stats_obj, t1, t2) : t1, t2 \in BOOLEAN }
    ELSE IF mode_ = 1
        THEN { _sim_taiko(acc_, bm, eff, stats_obj, t1) : t1 \in BOOLEAN }
    ELSE IF mode_ = 2
        THEN { _sim_catch(acc_, bm, eff, stats_obj) }
    ELSE IF mode_ = 3
        THEN { _sim_mania(acc_, bm, eff, stats_obj, t1) : t1 \in BOOLEAN }
    ELSE { Return({}) }

\* lines 403-417
Simulate ==
    /\ pc = "simulate"
    /\ effective_misses' = EffectiveMisses(misses, statistics)
    /\ \E r \in Dispatch(mode, acc, beatmap, effective_misses', statistics) :
         IF r.exc = "none"
            THEN /\ stats' = r.ret
                 /\ pc' = "score"
                 /\ UNCHANGED pending
            ELSE /\ stats' = {}
                 /\ pending' = Error(<<r.exc>>)
                 /\ pc' = "finally_reader"
    /\ UNCHANGED <<file_path, mode, acc, misses, statistics, beatmap,
                   fs, reader, called, outcome>>

\* lines 420-430
BuildScore ==
    /\ pc = "score"
    /\ called' = called \cup {"ScoreInfo"}
    /\ pc' = "perf"
    /\ UNCHANGED <<file_path, mode, acc, misses, statistics, beatmap,
                   fs, reader, pending, effective_misses, stats, outcome>>

\* lines 433-444
Performance ==
    /\ pc = "perf"
    /\ called' = called \cup {"PerformanceCalculator"}
    /\ pending' = Success(stats)
    /\ pc' = "finally_reader"
    /\ UNCHANGED <<file_path, mode, acc, misses, statistics, beatmap,
                   fs, reader, effective_misses, stats, outcome>>

\* line 451, reader.Dispose() returns (or reader is None)
DisposeReader ==
    /\ pc = "finally_reader"
    /\ reader' = IF reader = "open" THEN "disposed" ELSE reader
    /\ pc' = "finally_fs"
    /\ UNCHANGED <<file_path, mode, acc, misses, statistics, beatmap,
                   fs, called, pending, effective_misses, stats, outcome>>

\* line 451, reader.Dispose() raises: the exception leaves calculate
DisposeReaderRaises ==
    /\ pc = "finally_reader"
    /\ reader = "open"
    /\ outcome' = Raised("exception in reader.Dispose")
    /\ pc' = "done"
    /\ UNCHANGED <<file_path, mode, acc, misses, statistics, beatmap,
                   fs, reader, called, pending, effective_misses, stats>>

\* line 452, fs.Dispose() returns (or fs is None); calculate returns
DisposeStream ==
    /\ pc = "finally_fs"
    /\ fs' = IF fs = "open" THEN "disposed" ELSE fs
    /\ outcome' = pending
    /\ pc' = "done"
    /\ UNCHANGED <<file_path, mode, acc, misses, statistics, beatmap,
                   reader, called, pending, effective_misses, stats>>

\* line 452, fs.Dispose() raises: the exception leaves calculate
DisposeStreamRaises ==
    /\ pc = "finally_fs"
    /\ fs = "open"
    /\ outcome' = Raised("exception in fs.Dispose")
    /\ pc' = "done"
    /\ UNCHANGED <<file_path, mode, acc, misses, statistics, beatmap,
                   fs, reader, called, pending, effective_misses, stats>>

Next ==
    \/ FileNotFound \/ InvalidMode \/ EnterTry
    \/ OpenStream \/ NewReader \/ Decode \/ Convert \/ Difficulty
    \/ Simulate \/ BuildScore \/ Performance \/ EngineRaises
    \/ DisposeReader \/ DisposeReaderRaises \/ DisposeStream \/ DisposeStreamRaises

Spec == Init /\ [][Next]_vars

(***************************************************************************)
(* Properties of the simulators (checked under SimSpec).                   *)
(***************************************************************************)
Total == HitObjectsCount(beatmap)

Accuracy == QDiv(acc, QInt(100))

\* the call has returned or raised
SimDone == pc = "returned"

\* the simulator took its fallback path
FallbackCall(mode_) == SimDone /\ mode = mode_ /\ ~_has_valid_stats(statistics)

NonNegative(d) == \A p \in d : p[2] >= 0

\* C1: in the Taiko fallback with 0 <= misses <= total and any accuracy in
\* 0..100 the counts Great, Ok, Miss are all >= 0 and add up to total.
C1_TaikoCountsSumToTotal ==
    (FallbackCall(1) /\ misses <= Total) =>
        /\ outcome.kind = "return"
        /\ NonNegative(stats)
        /\ Count(stats, "Great") + Count(stats, "Ok") + Count(stats, "Miss") = Total

\* C2: in the Standard fallback with 0 <= misses <= total the counts Great,
\* Ok, Meh, Miss are all >= 0 and add up to total in every band; as clamping
\* can only raise a count and the unclamped counts add up to total, this
\* says that the final clamp changes no value.
C2_OsuCountsSumToTotal ==
    (FallbackCall(0) /\ misses <= Total) =>
        /\ outcome.kind = "return"
        /\ NonNegative(stats)
        /\ Count(stats, "Great") + Count(stats, "Ok")
             + Count(stats, "Meh") + Count(stats, "Miss") = Total

\* C2 witness: a Standard fallback call in the band rel_acc >= 0.25 with
\* misses that returned 300s, 100s and 50s.
C2_Witness ==
    /\ FallbackCall(0) /\ 0 < misses /\ misses < Total
    /\ QGe(OsuRelAcc(Accuracy, Total, Total - misses), <<1, 4>>)
    /\ Count(stats, "Great") > 0 /\ Count(stats, "Ok") > 0 /\ Count(stats, "Meh") > 0

\* the non-miss kinds the claim allows to be non-zero at an accuracy
ManiaTiers(accuracy) ==
    IF QGe(accuracy, <<96, 100>>) THEN {"Perfect", "Great"}
    ELSE IF QGe(accuracy, <<90, 100>>) THEN {"Great", "Good"}
    ELSE IF QGe(accuracy, <<80, 100>>) THEN {"Good", "Ok"}
    ELSE IF QGe(accuracy, <<60, 100>>) THEN {"Ok", "Meh"}
    ELSE {"Meh"}

\* C3: in the Mania fallback with 0 <= misses <= total the six counts are
\* >= 0, Miss is misses, the counts add up to total, and only the tiers of
\* the accuracy band are non-zero among the non-miss kinds.
C3_ManiaCountsSumToTotal ==
    (FallbackCall(3) /\ misses <= Total) =>
        /\ outcome.kind = "return"
        /\ { p[1] : p \in stats } = {"Perfect", "Great", "Good", "Ok", "Meh", "Miss"}
        /\ NonNegative(stats)
        /\ Count(stats, "Miss") = misses
        /\ DictSum(stats) = Total
        /\ \A p \in stats :
             (p[1] # "Miss" /\ p[2] # 0) => p[1] \in ManiaTiers(Accuracy)

\* C3 witness: a Mania fallback call with misses that split the relevant
\* objects between Great and Good.
C3_Witness ==
    /\ FallbackCall(3) /\ 0 < misses /\ misses < Total
    /\ Count(stats, "Great") > 0 /\ Count(stats, "Good") > 0

\* the field of the explicit statistics, 0 when it is missing
Field(f) == DictGet(statistics.items, f, 0)

\* the claim's probe: some probe field is strictly positive
Usable ==
    \E f \in {"great", "ok", "meh", "good", "perfect", "miss", "large_tick_hit"} :
        Field(f) > 0

\* the field-to-judgment table of each mode
Table(mode_) ==
    CASE mode_ = 0 -> { <<"Great", "great">>, <<"Ok", "ok">>, <<"Meh", "meh">>,
                        <<"Miss", "miss">> }
      [] mode_ = 1 -> { <<"Great", "great">>, <<"Ok", "ok">>, <<"Miss", "miss">> }
      [] mode_ = 2 -> { <<"Great", "great">>, <<"LargeTickHit", "large_tick_hit">>,
                        <<"SmallTickHit", "small_tick_hit">>,
                        <<"SmallTickMiss", "small_tick_miss">>, <<"Miss", "miss">> }
      [] mode_ = 3 -> { <<"Perfect", "perfect">>, <<"Great", "great">>,
                        <<"Good", "good">>, <<"Ok", "ok">>, <<"Meh", "meh">>,
                        <<"Miss", "miss">> }

\* what the fallback simulation of a mode can return on the call's arguments
FallbackResults(mode_) ==
    CASE mode_ = 0 -> { OsuFallback(acc, beatmap, misses, t1, t2) : t1, t2 \in BOOLEAN }
      [] mode_ = 1 -> { TaikoFallback(acc, beatmap, misses, t1) : t1 \in BOOLEAN }
      [] mode_ = 2 -> { CatchFallback(beatmap, misses) }
      [] mode_ = 3 -> { ManiaFallback(acc, beatmap, misses, t1) : t1 \in BOOLEAN }

\* C4: a simulator returns the mode's table applied to the explicit fields
\* exactly when some probe field is > 0, and the fallback simulation on
\* (acc, total, misses) otherwise.
C4_SourceSelection ==
    SimDone =>
        IF Usable
            THEN /\ outcome.kind = "return"
                 /\ stats = { <<p[1], Field(p[2])>> : p \in Table(mode) }
            ELSE \E r \in FallbackResults(mode) :
                    /\ r.exc = "none" /\ outcome.kind = "return" /\ stats = r.ret

\* C4 witness: statistics whose only positive fields are small ticks, with
\* an all-zero result of the table, sent to the fallback, which returned
\* something else.
C4_Witness ==
    /\ SimDone /\ ~Usable
    /\ Field("small_tick_hit") > 0
    /\ stats # { <<p[1], Field(p[2])>> : p \in Table(mode) }

\* C7: the Catch fallback returns Great = maxFruits, LargeTickHit =
\* max(0, maxDroplets - misses), SmallTickHit = maxTinyDroplets, Miss =
\* misses, and Great + LargeTickHit + Miss = maxFruits + maxDroplets, for
\* every misses >= 0.
C7_CatchComboInvariant ==
    FallbackCall(2) =>
        LET c == CatchCounts(beatmap)
            maxDroplets == c.max_droplets_total - c.max_tiny_droplets
        IN  /\ stats = { <<"Great", c.max_fruits>>,
                         <<"LargeTickHit", Max0(maxDroplets - misses)>>,
                         <<"SmallTickHit", c.max_tiny_droplets>>,
                         <<"Miss", misses>> }
            /\ Count(stats, "Great") + Count(stats, "LargeTickHit")
                 + Count(stats, "Miss") = c.max_fruits + maxDroplets

\* 6*Great + 2*Ok + Meh - 6*accuracy*total
WeightedDrift ==
    QSub(QInt(6 * Count(stats, "Great") + 2 * Count(stats, "Ok") + Count(stats, "Meh")),
         QMul(QInt(6 * Total), Accuracy))

\* the accuracy can be reached with that many misses: rel_acc is not clamped
Reachable ==
    /\ misses < Total
    /\ QLe(QMul(Accuracy, QInt(Total)), QInt(Total - misses))

\* C8: when the accuracy is reachable, the Standard fallback returns counts
\* with |6*Great + 2*Ok + Meh - 6*accuracy*total| <= 3, and accuracy 100
\* without misses returns Great = total and nothing else.
C8_OsuMatchesAccuracy ==
    (FallbackCall(0) /\ Reachable) =>
        /\ outcome.kind = "return"
        /\ QLe(QAbs(WeightedDrift), QInt(3))
        /\ (acc = QInt(100) /\ misses = 0) =>
              stats = { <<"Great", Total>>, <<"Ok", 0>>, <<"Meh", 0>>, <<"Miss", 0>> }

\* C8 witness: a reachable accuracy below 100 in the band rel_acc >= 0.25
\* whose counts do not hit the declared accuracy exactly.
C8_Witness ==
    /\ FallbackCall(0) /\ Reachable
    /\ QGe(OsuRelAcc(Accuracy, Total, Total - misses), <<1, 4>>)
    /\ Count(stats, "Ok") > 0 /\ Count(stats, "Meh") > 0
    /\ WeightedDrift # QInt(0)

\* C9: with misses >= total the Standard fallback raises nothing and returns
\* Miss = misses with Great, Ok and Meh zero or absent.
C9_OsuNothingRelevant ==
    (FallbackCall(0) /\ misses >= Total) =>
        /\ outcome.kind = "return"
        /\ Count(stats, "Miss") = misses
        /\ Count(stats, "Great") = 0 /\ Count(stats, "Ok") = 0 /\ Count(stats, "Meh") = 0

\* C9 witness: a non-empty chart all of whose objects are missed, at a
\* positive accuracy.
C9_Witness ==
    /\ FallbackCall(0) /\ Total > 0 /\ misses = Total /\ acc # QInt(0)
    /\ stats = { <<"Miss", misses>> }

(***************************************************************************)
(* Properties of calculate (checked under Spec).                           *)
(***************************************************************************)
\* calculate has returned or raised
CalcDone == pc = "done"

MissingFile == ~Exists(AbsPath(file_path))

\* C5: calculate never raises and returns a success or an error object; a
\* missing file gives the error naming the absolute path before anything is
\* opened or called, and an unknown mode gives an error object.
C5_NeverRaises ==
    CalcDone =>
        /\ outcome.kind \in {"success", "error"}
        /\ MissingFile =>
              /\ outcome = Error(<<"File not found: ">> \o AbsPath(file_path))
              /\ called = {} /\ fs = "None" /\ reader = "None"
        /\ (~MissingFile /\ mode \notin Rulesets) => outcome.kind = "error"

\* C6: when calculate is left, no stream or reader that was opened is still
\* open, whichever step failed, and the early returns opened none.
C6_ResourcesReleased ==
    CalcDone =>
        /\ fs # "open" /\ reader # "open"
        /\ (MissingFile \/ mode \notin Rulesets) =>
              (fs = "None" /\ reader = "None" /\ called = {})

\* C10 as stated: every successful call reports Miss equal to the explicit
\* miss field when the explicit statistics pass the probe, and to the
\* caller's misses otherwise, in every mode and every Standard band.
C10_MissIsEffectiveMisses ==
    (CalcDone /\ outcome.kind = "success") =>
        Count(outcome.stats_used, "Miss") =
            (IF Usable THEN Field("miss") ELSE misses)

\* the Standard fallback ran in its band rel_acc < 1/6
OsuLowBandCall ==
    /\ mode = 0 /\ ~Usable /\ Total - misses > 0
    /\ QLt(OsuRelAcc(Accuracy, Total, Total - misses), <<1, 6>>)

\* C10 amended: every successful call reports Miss equal to the effective
\* miss count, except in the Standard fallback with relevant > 0 and
\* rel_acc < 1/6, where Miss is total - Meh, which is at least misses.
C10_MissIsEffectiveMissesOrRecomputed ==
    (CalcDone /\ outcome.kind = "success") =>
        /\ effective_misses = (IF Usable THEN Field("miss") ELSE misses)
        /\ IF OsuLowBandCall
              THEN /\ Count(outcome.stats_used, "Miss")
                        = Total - Count(outcome.stats_used, "Meh")
                   /\ Count(outcome.stats_used, "Miss") >= misses
              ELSE Count(outcome.stats_used, "Miss") = effective_misses

\* C10 witness: a successful Standard call in the band rel_acc < 1/6 that
\* reports more misses than the caller passed, with some 50s.
C10_Witness ==
    /\ CalcDone /\ outcome.kind = "success" /\ OsuLowBandCall
    /\ Count(outcome.stats_used, "Meh") > 0
    /\ Count(outcome.stats_used, "Miss") > misses

====
